---- MODULE Spec2Model ----
(***************************************************************************)
(* Model of the command-line driver of powermolecli (powermolecli.py).     *)
(*                                                                         *)
(* The driver is one sequential process.  `pc` is its position in main(),  *)
(* `trace` is the ordered record of what it has done so far: every call    *)
(* into a collaborator of the library, every log record, every exception   *)
(* raised.  The collaborators (StateManager, Tunnel, Heartbeat, the        *)
(* instructors, ...) live in the library; the model keeps of them only     *)
(* what the driver observes: that the call was made, what it returned,     *)
(* and which exception it raised.                                          *)
(*                                                                         *)
(* Interrupts (KeyboardInterrupt) are delivered where the driver itself    *)
(* waits for the outside world: in input(), during the command round trip  *)
(* of the interactive loop, and in the two sleep loops.                    *)
(***************************************************************************)
EXTENDS Integers, Sequences, FiniteSets

VARIABLES
    config_file,    \* the content found at args.config_file (the run's input)
    config,         \* main's local `config`: <<>> is None, <<c>> is the object c
    pc,             \* position of the driver in main()
    trace,          \* calls, log records and raises, in program order
    exc,            \* the exception in flight ("none" when there is none)
    tunnel,         \* main's local `tunnel`: Unbound or "Tunnel"
    bootstrapagent, \* main's local `bootstrapagent`
    assistant,      \* main's local `assistant`: Unbound or the instructor class
    transfer_args,  \* the metadata_files argument of every assistant.transfer call
    process,        \* the child started by start_application
    ticks,          \* completed sleep() calls
    slept,          \* seconds spent in sleep()
    stdin_read,     \* the lines input() has returned, in order
    forwarded,      \* the arguments of every assistant.exec_command call, in order
    command,        \* the interactive loop's local `command`
    response_raw,   \* the interactive loop's local `response_raw` (bytes)
    printed,        \* the lines print() has written for the response in response_raw
    interrupt_at    \* where the interrupt was delivered ("none" before it)

vars == <<config_file, config, pc, trace, exc, tunnel, bootstrapagent, assistant,
          transfer_args, process, ticks, slept, stdin_read, forwarded, command,
          response_raw, printed, interrupt_at>>

(***************************************************************************)
(* Bounds of the model.                                                    *)
(***************************************************************************)
MaxCommands == 2    \* lines the interactive loop reads before only EOF/interrupt remain
MaxLen == 3         \* bytes in a response of exec_command
MaxTicks == 2       \* sleep() calls before only the interrupt remains

(***************************************************************************)
(* Constants of the program.                                               *)
(***************************************************************************)
DEBUG == FALSE
SLEEP_APPLICATION == 5
SLEEP_IDLE == 1
PRINT_PREFIX == <<">", " ", " ", " ", " ">>

Unbound == "unbound"
ValidModes == {"FOR", "TOR", "INTERACTIVE", "FILE"}
\* a mode value the four comparisons do not know
Modes == ValidModes \cup {"OTHER"}

\* config.application: None (<<>>) or the descriptor of the binary
Applications == {<<>>, <<"firefox", "/usr/bin">>}
\* config.files
FileLists == {<<"a.txt">>, <<"a.txt", "b.txt">>}
\* what the user types
Commands == {"echo hi", "ls"}

\* Configuration(path) raises InvalidConfigurationFile when valid is FALSE
ConfigFiles ==
    [valid : {TRUE}, mode : Modes, application : Applications, files : FileLists]
    \cup [valid : {FALSE}, mode : {"FOR"}, application : {<<>>}, files : {<<"a.txt">>}]

(***************************************************************************)
(* bytes.decode("utf-8") and str.split('\n') over a small alphabet:        *)
(* 0x61 'a', 0x0A '\n', 0xC3 0xA9 (the two bytes of U+00E9).  A 0xC3 not   *)
(* followed by a continuation byte, and a continuation byte on its own,    *)
(* are invalid UTF-8.                                                      *)
(***************************************************************************)
Bytes == {10, 97, 195, 169}

RECURSIVE SeqsUpTo(_, _)
SeqsUpTo(S, n) ==
    IF n = 0 THEN {<<>>}
    ELSE LET shorter == SeqsUpTo(S, n - 1)
         IN  shorter \cup {Append(s, x) : s \in shorter, x \in S}

Responses == SeqsUpTo(Bytes, MaxLen)

DecodeError == <<"UnicodeDecodeError">>

RECURSIVE Decode(_)
Decode(b) ==
    IF b = <<>> THEN <<>>
    ELSE IF Head(b) = 97 \/ Head(b) = 10
    THEN LET rest == Decode(Tail(b))
         IN  IF rest = DecodeError THEN DecodeError
             ELSE <<(IF Head(b) = 97 THEN "a" ELSE "\n")>> \o rest
    ELSE IF Head(b) = 195 /\ Len(b) >= 2 /\ b[2] = 169
    THEN LET rest == Decode(Tail(Tail(b)))
         IN  IF rest = DecodeError THEN DecodeError
             ELSE <<"U+00E9">> \o rest
    ELSE DecodeError

\* variant: split() without a separator, which drops the empty pieces
RECURSIVE Split_DropEmpty(_)
Split_DropEmpty(s) ==
    IF s = <<>> THEN <<>>
    ELSE LET rest == Split_DropEmpty(Tail(s))
         IN  IF Head(s) = "\n" THEN rest
             ELSE IF Tail(s) # <<>> /\ Head(Tail(s)) # "\n"
             THEN << <<Head(s)>> \o Head(rest) >> \o Tail(rest)
             ELSE << <<Head(s)>> >> \o rest

RECURSIVE Split(_)
Split(s) ==
    IF s = <<>> THEN << <<>> >>
    ELSE LET rest == Split(Tail(s))
         IN  IF Head(s) = "\n"
             THEN << <<>> >> \o rest
             ELSE << <<Head(s)>> \o Head(rest) >> \o Tail(rest)

\* the loop's local `response_line`, a function of `response_raw`
ResponseLine(raw) == Split(Decode(raw))

PrintedLine(line) == PRINT_PREFIX \o line

(***************************************************************************)
(* Entries of the trace.                                                   *)
(***************************************************************************)
Log(level, msg) == "log " \o level \o ": " \o msg
Raise(e) == "raise " \o e


Init ==
    /\ config_file \in ConfigFiles
    /\ config = <<>>
    /\ pc = "parse_config_file"
    /\ trace = <<>>
    /\ exc = "none"
    /\ tunnel = Unbound
    /\ bootstrapagent = Unbound
    /\ assistant = Unbound
    /\ transfer_args = <<>>
    /\ process = "none"
    /\ ticks = 0
    /\ slept = 0
    /\ stdin_read = <<>>
    /\ forwarded = <<>>
    /\ command = ""
    /\ response_raw = <<>>
    /\ printed = <<>>
    /\ interrupt_at = "none"

Mode == config[1].mode

(***************************************************************************)
(* parse_config_file and the test of its result in main.                   *)
(***************************************************************************)
ModeMessage(mode) ==
    IF mode = "FILE" THEN <<Log("info", "mode FILE enabled")>>
    ELSE IF mode = "INTERACTIVE" THEN <<Log("info", "mode INTERACTIVE enabled")>>
    ELSE IF mode = "FOR" THEN <<Log("info", "mode FOR enabled")>>
    ELSE IF mode = "TOR" THEN <<Log("info", "mode TOR enabled")>>
    ELSE <<>>

\* variant: the except clause is missing and the object is handed back anyway
ParseConfigFile_NoExcept ==
    /\ pc = "parse_config_file"
    /\ config' = <<config_file>>
    /\ trace' = trace \o ModeMessage(config_file.mode)
    /\ pc' = "check_config"
    /\ UNCHANGED <<config_file, exc, tunnel, bootstrapagent, assistant, transfer_args,
                   process, ticks, slept, stdin_read, forwarded, command, response_raw,
                   printed, interrupt_at>>

ParseConfigFile ==
    /\ pc = "parse_config_file"
    /\ IF ~config_file.valid
       THEN \* InvalidConfigurationFile is caught: return None
            /\ config' = <<>>
            /\ trace' = trace
       ELSE /\ config' = <<config_file>>
            /\ trace' = trace \o ModeMessage(config_file.mode)
    /\ pc' = "check_config"
    /\ UNCHANGED <<config_file, exc, tunnel, bootstrapagent, assistant, transfer_args,
                   process, ticks, slept, stdin_read, forwarded, command, response_raw,
                   printed, interrupt_at>>

CheckConfig ==
    /\ pc = "check_config"
    /\ pc' = IF config = <<>> THEN "done" ELSE "with_state"
    /\ UNCHANGED <<config_file, config, trace, exc, tunnel, bootstrapagent, assistant,
                   transfer_args, process, ticks, slept, stdin_read, forwarded, command,
                   response_raw, printed, interrupt_at>>

(***************************************************************************)
(* Construction of the collaborators inside the state-manager scope.       *)
(***************************************************************************)
\* a step of main that makes calls and goes on to the next statement
Advance(events, to) ==
    /\ trace' = trace \o events
    /\ pc' = to
    /\ UNCHANGED <<config_file, config, exc, tunnel, bootstrapagent, assistant,
                   transfer_args, process, ticks, slept, stdin_read, forwarded, command,
                   response_raw, printed, interrupt_at>>

EnterStateManager ==
    /\ pc = "with_state"
    /\ Advance(<<"StateManager.__enter__">>, "write_ssh_config_file")

WriteSshConfigFile ==
    /\ pc = "write_ssh_config_file"
    /\ Advance(<<"write_ssh_config_file">>, "transferagent")

ConstructTransferAgent ==
    /\ pc = "transferagent"
    /\ Advance(<<"TransferAgent">>, "dispatch")

\* variant: the TOR branch builds the instructor of FOR
InstructorOf_CopyPaste(mode) ==
    IF mode = "FOR" THEN "ForInstructor"
    ELSE IF mode = "TOR" THEN "ForInstructor"
    ELSE IF mode = "FILE" THEN "FileInstructor"
    ELSE IF mode = "INTERACTIVE" THEN "InteractiveInstructor"
    ELSE Unbound

InstructorOf(mode) ==
    IF mode = "FOR" THEN "ForInstructor"
    ELSE IF mode = "TOR" THEN "TorInstructor"
    ELSE IF mode = "FILE" THEN "FileInstructor"
    ELSE IF mode = "INTERACTIVE" THEN "InteractiveInstructor"
    ELSE Unbound

\* variant: the instructor is built before the tunnel
Dispatch_InstructorFirst ==
    /\ pc = "dispatch"
    /\ IF Mode \in ValidModes
       THEN /\ tunnel' = "Tunnel"
            /\ bootstrapagent' = "BootstrapAgent"
            /\ assistant' = InstructorOf(Mode)
            /\ trace' = trace \o <<InstructorOf(Mode), "Tunnel", "BootstrapAgent">>
       ELSE UNCHANGED <<tunnel, bootstrapagent, assistant, trace>>
    /\ pc' = "setup_link"
    /\ UNCHANGED <<config_file, config, exc, transfer_args, process, ticks, slept,
                   stdin_read, forwarded, command, response_raw, printed,
                   interrupt_at>>

\* variant: the final else raises the SystemExit(1) it builds
Dispatch_ElseRaises ==
    /\ pc = "dispatch"
    /\ IF Mode \in ValidModes
       THEN /\ tunnel' = "Tunnel"
            /\ bootstrapagent' = "BootstrapAgent"
            /\ assistant' = InstructorOf(Mode)
            /\ trace' = trace \o <<"Tunnel", "BootstrapAgent", InstructorOf(Mode)>>
            /\ pc' = "setup_link"
            /\ exc' = exc
       ELSE /\ trace' = trace \o <<Raise("SystemExit(1)")>>
            /\ exc' = "SystemExit(1)"
            /\ pc' = "exit_state"
            /\ UNCHANGED <<tunnel, bootstrapagent, assistant>>
    /\ UNCHANGED <<config_file, config, transfer_args, process, ticks, slept,
                   stdin_read, forwarded, command, response_raw, printed,
                   interrupt_at>>

Dispatch ==
    /\ pc = "dispatch"
    /\ IF Mode \in ValidModes
       THEN /\ tunnel' = "Tunnel"
            /\ bootstrapagent' = "BootstrapAgent"
            /\ assistant' = InstructorOf(Mode)
            /\ trace' = trace \o <<"Tunnel", "BootstrapAgent", InstructorOf(Mode)>>
       ELSE \* SystemExit(1) is built and dropped: nothing is raised
            UNCHANGED <<tunnel, bootstrapagent, assistant, trace>>
    /\ pc' = "setup_link"
    /\ UNCHANGED <<config_file, config, exc, transfer_args, process, ticks, slept,
                   stdin_read, forwarded, command, response_raw, printed,
                   interrupt_at>>

(***************************************************************************)
(* setup_link (the helpers module): starts the collaborators one after the *)
(* other and raises SetupFailed at the first that cannot be started.       *)
(***************************************************************************)
StartOrder ==
    <<"transferagent.start", "tunnel.start", "bootstrapagent.start", "assistant.start">>

\* the runs of setup_link: the starts it attempted, and whether the last one failed
SetupLinkRuns ==
    {[starts |-> SubSeq(StartOrder, 1, k), failed |-> f] :
        k \in 1..Len(StartOrder), f \in BOOLEAN}
    \ {[starts |-> SubSeq(StartOrder, 1, k), failed |-> FALSE] :
        k \in 1..(Len(StartOrder) - 1)}

SetupLink ==
    /\ pc = "setup_link"
    /\ IF Unbound \in {tunnel, bootstrapagent, assistant}
       THEN \* the arguments cannot be evaluated: the call is never made
            /\ trace' = trace \o <<Raise("UnboundLocalError")>>
            /\ exc' = "UnboundLocalError"
            /\ pc' = "exit_state"
       ELSE \E run \in SetupLinkRuns :
            /\ trace' = trace \o <<"setup_link">> \o run.starts
                              \o (IF run.failed THEN <<Raise("SetupFailed")>> ELSE <<>>)
            /\ exc' = IF run.failed THEN "SetupFailed" ELSE "none"
            /\ pc' = IF run.failed THEN "exit_state" ELSE "periodically_purge_buffer"
    /\ UNCHANGED <<config_file, config, tunnel, bootstrapagent, assistant, transfer_args,
                   process, ticks, slept, stdin_read, forwarded, command, response_raw,
                   printed, interrupt_at>>

PurgeBuffer ==
    /\ pc = "periodically_purge_buffer"
    /\ Advance(<<"tunnel.periodically_purge_buffer">>, "with_heartbeat")

EnterHeartbeat ==
    /\ pc = "with_heartbeat"
    /\ Advance(<<"Heartbeat.__enter__">>, "mode_branch")

(***************************************************************************)
(* The branch of the mode inside the heartbeat scope.  An unknown mode     *)
(* never gets here (SetupLink), so the final else of the chain is dead.    *)
(***************************************************************************)
BranchFOR ==
    /\ pc = "mode_branch"
    /\ Mode = "FOR"
    /\ Advance(<<"branch FOR",
                 Log("info", "connections on local ports will be forwarded"),
                 Log("info", "READY")>>,
               "check_application")

BranchTOR ==
    /\ pc = "mode_branch"
    /\ Mode # "FOR" /\ Mode = "TOR"
    /\ Advance(<<"branch TOR",
                 Log("info", "local port will be listening for web traffic"),
                 Log("info", "READY")>>,
               "check_application")

BranchINTERACTIVE ==
    /\ pc = "mode_branch"
    /\ Mode \notin {"FOR", "TOR"} /\ Mode = "INTERACTIVE"
    /\ Advance(<<"branch INTERACTIVE",
                 Log("warning", "the interface does not support shell meta characters "),
                 Log("warning", "such as pipe and it's not possible to interact with "),
                 Log("warning", "programs that need a response. hit control-c to quit")>>,
               "input")

\* variant: the raise SystemExit(0) after the transfer is missing
BranchFILE_NoExit ==
    /\ pc = "mode_branch"
    /\ Mode \notin {"FOR", "TOR", "INTERACTIVE"} /\ Mode = "FILE"
    /\ transfer_args' = Append(transfer_args, config[1].files)
    /\ trace' = trace \o <<"branch FILE", "assistant.transfer">>
    /\ pc' = "check_application"
    /\ UNCHANGED <<config_file, config, exc, tunnel, bootstrapagent, assistant, process,
                   ticks, slept, stdin_read, forwarded, command, response_raw,
                   printed, interrupt_at>>

BranchFILE ==
    /\ pc = "mode_branch"
    /\ Mode \notin {"FOR", "TOR", "INTERACTIVE"} /\ Mode = "FILE"
    /\ transfer_args' = Append(transfer_args, config[1].files)
    /\ trace' = trace \o <<"branch FILE", "assistant.transfer", Raise("SystemExit(0)")>>
    /\ exc' = "SystemExit(0)"
    /\ pc' = "exit_heartbeat"
    /\ UNCHANGED <<config_file, config, tunnel, bootstrapagent, assistant, process, ticks,
                   slept, stdin_read, forwarded, command, response_raw, printed, interrupt_at>>

(***************************************************************************)
(* The interactive loop.                                                   *)
(***************************************************************************)
Input ==
    /\ pc = "input"
    /\ Len(stdin_read) < MaxCommands
    /\ \E line \in Commands :
        /\ command' = line
        /\ stdin_read' = Append(stdin_read, line)
    /\ pc' = "exec_command"
    /\ UNCHANGED <<config_file, config, trace, exc, tunnel, bootstrapagent, assistant,
                   transfer_args, process, ticks, slept, forwarded, response_raw,
                   printed, interrupt_at>>

\* standard input is closed: input() raises EOFError, which nothing catches
InputEOF ==
    /\ pc = "input"
    /\ trace' = trace \o <<Raise("EOFError")>>
    /\ exc' = "EOFError"
    /\ pc' = "exit_heartbeat"
    /\ UNCHANGED <<config_file, config, tunnel, bootstrapagent, assistant, transfer_args,
                   process, ticks, slept, stdin_read, forwarded, command, response_raw,
                   printed, interrupt_at>>

ExecCommand ==
    /\ pc = "exec_command"
    /\ forwarded' = Append(forwarded, command)
    /\ \E r \in Responses :
        /\ response_raw' = r
        /\ IF Decode(r) = DecodeError
           THEN /\ trace' = trace \o <<Raise("UnicodeDecodeError")>>
                /\ exc' = "UnicodeDecodeError"
                /\ pc' = "exit_heartbeat"
           ELSE /\ pc' = IF ResponseLine(r) = <<>> THEN "input" ELSE "print"
                /\ UNCHANGED <<trace, exc>>
    /\ printed' = <<>>
    /\ UNCHANGED <<config_file, config, tunnel, bootstrapagent, assistant, transfer_args,
                   process, ticks, slept, stdin_read, command, interrupt_at>>

PrintLine ==
    /\ pc = "print"
    /\ LET i == Len(printed) + 1
           response_line == ResponseLine(response_raw)
       IN  /\ printed' = Append(printed, PrintedLine(response_line[i]))
           /\ pc' = IF i = Len(response_line) THEN "input" ELSE "print"
    /\ UNCHANGED <<config_file, config, trace, exc, tunnel, bootstrapagent, assistant,
                   transfer_args, process, ticks, slept, stdin_read, forwarded, command,
                   response_raw, interrupt_at>>

\* variant: the handler lets the KeyboardInterrupt go on instead of raising SystemExit(0)
InterruptInteractive_Reraise ==
    /\ pc \in {"input", "exec_command", "print"}
    /\ interrupt_at' = pc
    /\ forwarded' = IF pc = "exec_command" THEN Append(forwarded, command) ELSE forwarded
    /\ trace' = trace \o <<Raise("KeyboardInterrupt")>>
    /\ exc' = "KeyboardInterrupt"
    /\ pc' = "exit_heartbeat"
    /\ UNCHANGED <<config_file, config, tunnel, bootstrapagent, assistant, transfer_args,
                   process, ticks, slept, stdin_read, command, response_raw, printed>>

\* KeyboardInterrupt inside the try of the loop: in input(), in exec_command(), in print()
InterruptInteractive ==
    /\ pc \in {"input", "exec_command", "print"}
    /\ interrupt_at' = pc
    /\ forwarded' = IF pc = "exec_command" THEN Append(forwarded, command) ELSE forwarded
    /\ trace' = trace \o <<Raise("KeyboardInterrupt"), Raise("SystemExit(0)")>>
    /\ exc' = "SystemExit(0)"
    /\ pc' = "exit_heartbeat"
    /\ UNCHANGED <<config_file, config, tunnel, bootstrapagent, assistant, transfer_args,
                   process, ticks, slept, stdin_read, command, response_raw, printed>>

(***************************************************************************)
(* The application and the two sleep loops.                                *)
(***************************************************************************)
CheckApplication ==
    /\ pc = "check_application"
    /\ IF config[1].application # <<>>
       THEN /\ trace' = trace \o <<Log("info", "starting application..."),
                                   "start_application">>
            /\ process' = "running"
            /\ pc' = "sleep_application"
       ELSE /\ pc' = "sleep_idle"
            /\ UNCHANGED <<trace, process>>
    /\ UNCHANGED <<config_file, config, exc, tunnel, bootstrapagent, assistant,
                   transfer_args, ticks, slept, stdin_read, forwarded, command,
                   response_raw, printed, interrupt_at>>

Sleep(seconds, events) ==
    /\ ticks < MaxTicks
    /\ trace' = trace \o events
    /\ ticks' = ticks + 1
    /\ slept' = slept + seconds
    /\ UNCHANGED <<config_file, config, pc, exc, tunnel, bootstrapagent, assistant,
                   transfer_args, process, stdin_read, forwarded, command, response_raw,
                   printed, interrupt_at>>

SleepApplication ==
    /\ pc = "sleep_application"
    /\ Sleep(SLEEP_APPLICATION, <<>>)

\* variant: the handler re-raises without terminating the child
InterruptApplication_NoTerminate ==
    /\ pc = "sleep_application"
    /\ interrupt_at' = pc
    /\ trace' = trace \o <<Raise("KeyboardInterrupt"), Raise("KeyboardInterrupt")>>
    /\ exc' = "KeyboardInterrupt"
    /\ pc' = "exit_heartbeat"
    /\ UNCHANGED <<config_file, config, tunnel, bootstrapagent, assistant, transfer_args,
                   process, ticks, slept, stdin_read, forwarded, command, response_raw,
                   printed>>

InterruptApplication ==
    /\ pc = "sleep_application"
    /\ interrupt_at' = pc
    /\ process' = "terminated"
    /\ trace' = trace \o <<Raise("KeyboardInterrupt"), "process.terminate",
                           Raise("KeyboardInterrupt")>>
    /\ exc' = "KeyboardInterrupt"
    /\ pc' = "exit_heartbeat"
    /\ UNCHANGED <<config_file, config, tunnel, bootstrapagent, assistant, transfer_args,
                   ticks, slept, stdin_read, forwarded, command, response_raw,
                   printed>>

SleepIdle ==
    /\ pc = "sleep_idle"
    /\ Sleep(SLEEP_IDLE,
             IF DEBUG THEN <<Log("warning", "debugging mode enabled"), "tunnel.debug">>
             ELSE <<>>)

\* variant: the idle loop stands after the heartbeat scope, not inside it
InterruptIdle_OutsideHeartbeat ==
    /\ pc = "sleep_idle"
    /\ interrupt_at' = pc
    /\ trace' = trace \o <<Raise("KeyboardInterrupt")>>
    /\ exc' = "KeyboardInterrupt"
    /\ pc' = "exit_state"
    /\ UNCHANGED <<config_file, config, tunnel, bootstrapagent, assistant, transfer_args,
                   process, ticks, slept, stdin_read, forwarded, command, response_raw,
                   printed>>

InterruptIdle ==
    /\ pc = "sleep_idle"
    /\ interrupt_at' = pc
    /\ trace' = trace \o <<Raise("KeyboardInterrupt")>>
    /\ exc' = "KeyboardInterrupt"
    /\ pc' = "exit_heartbeat"
    /\ UNCHANGED <<config_file, config, tunnel, bootstrapagent, assistant, transfer_args,
                   process, ticks, slept, stdin_read, forwarded, command, response_raw,
                   printed>>

(***************************************************************************)
(* Unwinding: the two with statements and the except clause of main.       *)
(***************************************************************************)
ExitHeartbeat ==
    /\ pc = "exit_heartbeat"
    /\ Advance(<<"Heartbeat.__exit__">>, "exit_state")

ExitStateManager ==
    /\ pc = "exit_state"
    /\ Advance(<<"StateManager.__exit__">>, "except")

\* variant: the handler logs and exits with code 0
ExceptSetupFailed_ExitZero ==
    /\ pc = "except"
    /\ exc = "SetupFailed"
    /\ trace' = trace \o <<Log("error", "SetupFailed"), Raise("SystemExit(0)")>>
    /\ exc' = "SystemExit(0)"
    /\ pc' = "done"
    /\ UNCHANGED <<config_file, config, tunnel, bootstrapagent, assistant, transfer_args,
                   process, ticks, slept, stdin_read, forwarded, command, response_raw,
                   printed, interrupt_at>>

ExceptSetupFailed ==
    /\ pc = "except"
    /\ exc = "SetupFailed"
    /\ trace' = trace \o <<Log("error", "SetupFailed"), Raise("SystemExit(1)")>>
    /\ exc' = "SystemExit(1)"
    /\ pc' = "done"
    /\ UNCHANGED <<config_file, config, tunnel, bootstrapagent, assistant, transfer_args,
                   process, ticks, slept, stdin_read, forwarded, command, response_raw,
                   printed, interrupt_at>>

\* any other exception leaves main and ends the process
Propagate ==
    /\ pc = "except"
    /\ exc # "SetupFailed"
    /\ Advance(<<>>, "done")

Next ==
    \/ ParseConfigFile
    \/ CheckConfig
    \/ EnterStateManager
    \/ WriteSshConfigFile
    \/ ConstructTransferAgent
    \/ Dispatch
    \/ SetupLink
    \/ PurgeBuffer
    \/ EnterHeartbeat
    \/ BranchFOR
    \/ BranchTOR
    \/ BranchINTERACTIVE
    \/ BranchFILE
    \/ Input
    \/ InputEOF
    \/ ExecCommand
    \/ PrintLine
    \/ InterruptInteractive
    \/ CheckApplication
    \/ SleepApplication
    \/ InterruptApplication
    \/ SleepIdle
    \/ InterruptIdle
    \/ ExitHeartbeat
    \/ ExitStateManager
    \/ ExceptSetupFailed
    \/ Propagate

Spec == Init /\ [][Next]_vars
(***************************************************************************)
(* Vocabulary of the properties.                                           *)
(***************************************************************************)
SM_ENTER == "StateManager.__enter__"
SM_EXIT == "StateManager.__exit__"
HB_ENTER == "Heartbeat.__enter__"
HB_EXIT == "Heartbeat.__exit__"
PURGE == "tunnel.periodically_purge_buffer"

InstructorClasses ==
    {"ForInstructor", "TorInstructor", "InteractiveInstructor", "FileInstructor"}
ExpectedInstructor ==
    [FOR |-> "ForInstructor", TOR |-> "TorInstructor",
     INTERACTIVE |-> "InteractiveInstructor", FILE |-> "FileInstructor"]
BranchMarker(m) == "branch " \o m
BranchMarkers == {BranchMarker(m) : m \in Modes}
EnabledMessage(m) == "log info: mode " \o m \o " enabled"
\* positions of main inside the branch of the mode and what follows it in the scope
BranchPcs ==
    {"input", "exec_command", "print", "check_application", "sleep_application",
     "sleep_idle"}
UnwindPcs == {"exit_heartbeat", "exit_state", "except", "done"}
InteractivePcs == {"input", "exec_command", "print"}

Has(e) == \E i \in 1..Len(trace) : trace[i] = e
Count(e) == Cardinality({i \in 1..Len(trace) : trace[i] = e})
\* every b of the trace has an a before it
Before(a, b) ==
    \A j \in 1..Len(trace) : trace[j] = b => \E i \in 1..(j - 1) : trace[i] = a
First(e) == CHOOSE i \in 1..Len(trace) : trace[i] = e /\ \A j \in 1..(i - 1) : trace[j] # e
Precedes(a, b) == Has(a) /\ Has(b) /\ First(a) < First(b)
SetupSucceeded == Has("setup_link") /\ ~Has(Raise("SetupFailed"))
ValidRun == config_file.valid /\ config_file.mode \in ValidModes

\* C1: when setup_link raises SetupFailed, in every mode, the run ends with exit code 1
\* after logging the error; tunnel maintenance is never started, the heartbeat scope is
\* never opened, no mode branch is entered, and the state-manager scope is exited before
\* the process ends.
C1_SetupFailedExitsOne ==
    Has(Raise("SetupFailed")) =>
        /\ ~Has(PURGE)
        /\ ~Has(HB_ENTER)
        /\ \A m \in Modes : ~Has(BranchMarker(m))
        /\ pc \notin BranchPcs \cup {"periodically_purge_buffer", "with_heartbeat",
                                     "mode_branch", "exit_heartbeat"}
        /\ Count(SM_ENTER) = 1
        /\ pc = "done" =>
            /\ exc = "SystemExit(1)"
            /\ Count(SM_EXIT) = 1
            /\ Count(Log("error", "SetupFailed")) = 1
            /\ Precedes(Raise("SetupFailed"), SM_EXIT)
            /\ Precedes(SM_EXIT, Log("error", "SetupFailed"))
            /\ Precedes(Log("error", "SetupFailed"), Raise("SystemExit(1)"))
            /\ trace[Len(trace)] = Raise("SystemExit(1)")

C1_Witness ==
    /\ pc = "done"
    /\ Has(Raise("SetupFailed"))
    /\ Has("tunnel.start")
    /\ config_file.mode = "TOR"
    /\ exc = "SystemExit(1)"

\* C2: when the configuration file is invalid, parse_config_file returns None and main
\* returns before any resource is created: no state-manager scope, no SSH config file,
\* no transfer agent, tunnel, bootstrap agent, instructor or heartbeat.
C2_InvalidConfigCreatesNothing ==
    ~config_file.valid =>
        /\ config = <<>>
        /\ pc \in {"parse_config_file", "check_config", "done"}
        /\ \A e \in {SM_ENTER, "write_ssh_config_file", "TransferAgent", "Tunnel",
                     "BootstrapAgent", HB_ENTER} \cup InstructorClasses : ~Has(e)
        /\ tunnel = Unbound /\ bootstrapagent = Unbound /\ assistant = Unbound
        /\ exc = "none"

C2_Witness ==
    /\ ~config_file.valid
    /\ pc = "done"
    /\ config = <<>>

\* C3: for each of the four modes the run logs "mode X enabled" for its mode and no
\* other, constructs at most one instructor, of the variant of its mode, and executes
\* the loop branch of that mode and of no other.
C3_OneModePerRun ==
    ValidRun =>
        LET m == config_file.mode
        IN  /\ pc # "parse_config_file" => Count(EnabledMessage(m)) = 1
            /\ \A o \in Modes \ {m} : ~Has(EnabledMessage(o))
            /\ Cardinality({i \in 1..Len(trace) : trace[i] \in InstructorClasses}) <= 1
            /\ \A c \in InstructorClasses : Has(c) => c = ExpectedInstructor[m]
            /\ assistant \in {Unbound, ExpectedInstructor[m]}
            /\ Has("setup_link") => Count(ExpectedInstructor[m]) = 1
            /\ \A o \in Modes : Has(BranchMarker(o)) =>
                   o = m /\ Count(BranchMarker(o)) = 1 /\ assistant = ExpectedInstructor[m]
            /\ pc \in InteractivePcs => m = "INTERACTIVE"
            /\ Has("assistant.transfer") => m = "FILE"
            /\ SetupSucceeded /\ pc \in BranchPcs \cup {"done"} => Has(BranchMarker(m))

C3_Witness ==
    /\ config_file.mode = "TOR"
    /\ Has(EnabledMessage("TOR"))
    /\ Has("TorInstructor")
    /\ Has(BranchMarker("TOR"))
    /\ pc = "done"

\* C4: an interrupt in the 1-second idle loop tears down the heartbeat scope once and
\* then the state-manager scope once, in reverse order of acquisition, and no further
\* iteration of the loop runs after it.
C4_IdleInterruptTeardown ==
    /\ [](interrupt_at = "sleep_idle" =>
            /\ pc \in UnwindPcs
            /\ process = "none"
            /\ Precedes(SM_ENTER, HB_ENTER)
            /\ Count(HB_EXIT) <= 1 /\ Count(SM_EXIT) <= 1
            /\ Before(HB_EXIT, SM_EXIT)
            /\ pc = "exit_heartbeat" => ~Has(HB_EXIT)
            /\ pc = "exit_state" => Count(HB_EXIT) = 1 /\ ~Has(SM_EXIT)
            /\ pc \in {"except", "done"} =>
                   Count(HB_EXIT) = 1 /\ Count(SM_EXIT) = 1 /\ Precedes(HB_EXIT, SM_EXIT))
    /\ [][interrupt_at = "sleep_idle" => (ticks' = ticks /\ slept' = slept)]_vars

C4_Witness ==
    /\ interrupt_at = "sleep_idle"
    /\ ticks > 0
    /\ pc = "done"
    /\ Precedes(HB_EXIT, SM_EXIT)

\* C5: in FILE mode, after a successful setup, transfer is called exactly once with the
\* configured file list and the process then ends with exit code 0; the application is
\* never launched and neither sleep loop is entered.
C5_FileModeTransfersOnce ==
    config_file.valid /\ config_file.mode = "FILE" =>
        /\ Count("assistant.transfer") = Len(transfer_args)
        /\ Len(transfer_args) <= 1
        /\ Has("assistant.transfer") => SetupSucceeded /\ Precedes(HB_ENTER, "assistant.transfer")
        /\ ~Has("start_application")
        /\ process = "none"
        /\ ticks = 0 /\ slept = 0
        /\ pc \notin {"check_application", "sleep_application", "sleep_idle"}
        /\ SetupSucceeded /\ pc \in UnwindPcs =>
            /\ transfer_args = <<config_file.files>>
            /\ exc = "SystemExit(0)"
            /\ Precedes("assistant.transfer", Raise("SystemExit(0)"))

C5_Witness ==
    /\ config_file.mode = "FILE"
    /\ pc = "done"
    /\ transfer_args = << <<"a.txt", "b.txt">> >>
    /\ exc = "SystemExit(0)"

\* the run of a persistent mode m that names an application and has entered its branch
AppRun(m) ==
    /\ config_file.valid
    /\ config_file.mode = m
    /\ config_file.application # <<>>
    /\ Has(BranchMarker(m))

\* what C6 says of such a run: the application is launched, and once the run is over the
\* child was terminated before the two scopes were exited
LaunchedAndTerminated ==
    /\ pc \notin {"mode_branch", "check_application"} => Has("start_application")
    /\ pc = "sleep_application" => process = "running" /\ slept = SLEEP_APPLICATION * ticks
    /\ pc \in UnwindPcs =>
        /\ interrupt_at = "sleep_application"
        /\ process = "terminated"
        /\ exc = "KeyboardInterrupt"
        /\ Count("process.terminate") = 1
        /\ Before("process.terminate", HB_EXIT)
        /\ Before(HB_EXIT, SM_EXIT)
    /\ pc = "done" => Precedes("process.terminate", HB_EXIT) /\ Precedes(HB_EXIT, SM_EXIT)

\* C6, as claimed: in each of FOR, TOR and INTERACTIVE, after the branch of the mode, a
\* named application is launched, the driver idles in 5-second ticks until interrupted,
\* and the interrupt terminates the child before the scopes are torn down.
C6_AsClaimed ==
    \A m \in {"FOR", "TOR", "INTERACTIVE"} :
        /\ AppRun(m)
        /\ pc \notin InteractivePcs
        /\ exc \notin {"EOFError", "UnicodeDecodeError"}
        => LaunchedAndTerminated

\* C6, amended: the above holds in FOR and TOR; in INTERACTIVE the command loop is left
\* only by an exception, so the application is never launched and the 5-second loop is
\* never entered.
C6_Amended ==
    /\ \A m \in {"FOR", "TOR"} : AppRun(m) => LaunchedAndTerminated
    /\ config_file.valid /\ config_file.mode = "INTERACTIVE" =>
        /\ ~Has("start_application")
        /\ process = "none"
        /\ pc \notin {"check_application", "sleep_application", "sleep_idle"}
        /\ ticks = 0

C6_Witness ==
    /\ AppRun("FOR")
    /\ pc = "done"
    /\ ticks = MaxTicks
    /\ process = "terminated"
    /\ Precedes("start_application", "process.terminate")

\* C7: in INTERACTIVE mode an interrupt received while a command is read or executed ends
\* the loop and the process with exit code 0, after the heartbeat scope and then the
\* state-manager scope have been exited; no command is read after the interrupt.
C7_InteractiveInterruptExitsZero ==
    /\ [](interrupt_at \in InteractivePcs =>
            /\ config_file.mode = "INTERACTIVE"
            /\ pc \in UnwindPcs
            /\ exc = "SystemExit(0)"
            /\ Count(HB_EXIT) <= 1 /\ Count(SM_EXIT) <= 1
            /\ Before(HB_EXIT, SM_EXIT)
            /\ pc = "done" =>
                /\ Precedes(Raise("SystemExit(0)"), HB_EXIT)
                /\ Precedes(HB_EXIT, SM_EXIT)
                /\ trace[Len(trace)] = SM_EXIT)
    /\ [][(interrupt_at \in InteractivePcs) =>
            (stdin_read' = stdin_read /\ forwarded' = forwarded /\ printed' = printed)]_vars

C7_Witness ==
    /\ interrupt_at = "exec_command"
    /\ Len(stdin_read) = 2
    /\ pc = "done"
    /\ exc = "SystemExit(0)"

\* the steps of a run of mode m, in program order
StepsOf(m) ==
    <<SM_ENTER, "write_ssh_config_file", "TransferAgent", "Tunnel", "BootstrapAgent",
      ExpectedInstructor[m], "setup_link", PURGE, HB_ENTER, BranchMarker(m)>>
StepNames ==
    {SM_ENTER, "write_ssh_config_file", "TransferAgent", "Tunnel", "BootstrapAgent",
     "setup_link", PURGE, HB_ENTER} \cup InstructorClasses \cup BranchMarkers
IsStep(e) == e \in StepNames
\* what the driver does inside the branch of the mode and after it in the scope
BranchEvents ==
    BranchMarkers \cup
    {"assistant.transfer", "start_application", "process.terminate",
     Log("info", "READY"), Log("info", "starting application...")}
ScopesOpenAt(i) ==
    /\ \E j \in 1..(i - 1) : trace[j] = SM_ENTER
    /\ \E j \in 1..(i - 1) : trace[j] = HB_ENTER
    /\ \A j \in 1..(i - 1) : trace[j] \notin {HB_EXIT, SM_EXIT}

\* C8: on a run with a valid configuration the steps open state-manager scope, write SSH
\* config, transfer agent, tunnel, bootstrap agent, instructor, setup_link, tunnel
\* maintenance, open heartbeat scope, mode branch occur in this order, each at most once;
\* the heartbeat scope is opened only after setup_link has returned without failure, and
\* everything the mode branch does happens with both scopes open.
C8_StepsInOrder ==
    ValidRun =>
        LET done == SelectSeq(trace, IsStep)
            all == StepsOf(config_file.mode)
        IN  /\ Len(done) <= Len(all)
            /\ done = SubSeq(all, 1, Len(done))
            /\ Has(HB_ENTER) => SetupSucceeded /\ Precedes("setup_link", HB_ENTER)
            /\ pc \in BranchPcs \cup {"mode_branch"} => ScopesOpenAt(Len(trace) + 1)
            /\ pc \in BranchPcs => done = all
            /\ \A i \in 1..Len(trace) : trace[i] \in BranchEvents => ScopesOpenAt(i)

C8_Witness ==
    /\ ValidRun
    /\ config_file.mode = "INTERACTIVE"
    /\ pc = "print"
    /\ SelectSeq(trace, IsStep) = StepsOf("INTERACTIVE")

\* str.join('\n') of a list of pieces
RECURSIVE Join(_)
Join(pieces) ==
    IF Len(pieces) = 0 THEN <<>>
    ELSE IF Len(pieces) = 1 THEN pieces[1]
    ELSE pieces[1] \o <<"\n">> \o Join(Tail(pieces))
Newlines(b) == Cardinality({i \in 1..Len(b) : b[i] = 10})
Unprefixed(lines) == [i \in 1..Len(lines) |-> SubSeq(lines[i], Len(PRINT_PREFIX) + 1, Len(lines[i]))]
\* `lines` is the first n printed lines of the response b
PrintedOf(lines, b, n) ==
    /\ Len(lines) = n
    /\ \A i \in 1..n :
        /\ SubSeq(lines[i], 1, 5) = <<">", " ", " ", " ", " ">>
        /\ \A k \in 6..Len(lines[i]) : lines[i][k] # "\n"
    /\ n = Newlines(b) + 1 => Join(Unprefixed(lines)) = Decode(b)
    /\ n < Newlines(b) + 1 =>
        \E rest \in SeqsUpTo({"a", "U+00E9", "\n"}, Len(b)) :
            Join(Unprefixed(lines)) \o <<"\n">> \o rest = Decode(b)

\* C9: in INTERACTIVE mode every line read is forwarded verbatim to exec_command exactly
\* once and in input order, the next line is read only after the previous response has
\* been printed, and the printed output of a response is its newline-split pieces in
\* order, one line per piece (newlines plus one, empty pieces included), each after the
\* prefix ">    ".
C9_CommandsForwardedResponsesPrinted ==
    /\ pc = "exec_command" =>
        /\ stdin_read = Append(forwarded, command)
    /\ pc # "exec_command" => forwarded = stdin_read
    /\ pc = "input" /\ stdin_read # <<>> =>
        PrintedOf(printed, response_raw, Newlines(response_raw) + 1)
    /\ pc = "print" =>
        /\ Len(printed) < Newlines(response_raw) + 1
        /\ Len(ResponseLine(response_raw)) = Newlines(response_raw) + 1
        /\ printed # <<>> => PrintedOf(printed, response_raw, Len(printed))

C9_Witness ==
    /\ pc = "input"
    /\ stdin_read = <<"echo hi", "ls">>
    /\ forwarded = <<"echo hi", "ls">>
    /\ response_raw = <<10, 97, 10>>
    /\ printed = <<PRINT_PREFIX, PRINT_PREFIX \o <<"a">>, PRINT_PREFIX>>

\* C10: with a mode outside the four, the else branch of the dispatch constructs no
\* tunnel, bootstrap agent or instructor and raises nothing (no exit code 1, no log);
\* setup_link is never called, so no collaborator is started, the heartbeat scope is
\* never opened and no mode branch is entered: the run ends with the unhandled error of
\* the setup_link statement, after which the state-manager scope is exited.
C10_UnknownModeFailsAtSetupLink ==
    config_file.valid /\ config_file.mode \notin ValidModes =>
        /\ \A e \in {"Tunnel", "BootstrapAgent"} \cup InstructorClasses : ~Has(e)
        /\ tunnel = Unbound /\ bootstrapagent = Unbound /\ assistant = Unbound
        /\ pc = "setup_link" =>
            /\ exc = "none"
            /\ trace = <<SM_ENTER, "write_ssh_config_file", "TransferAgent">>
        /\ ~Has(Raise("SystemExit(1)"))
        /\ \A i \in 1..Len(trace) : trace[i] \notin
               {"setup_link", HB_ENTER, PURGE} \cup BranchMarkers
               \cup {StartOrder[k] : k \in 1..Len(StartOrder)}
        /\ pc \notin BranchPcs \cup {"periodically_purge_buffer", "with_heartbeat",
                                     "mode_branch", "exit_heartbeat"}
        /\ pc \in {"exit_state", "except", "done"} => exc = "UnboundLocalError"
        /\ pc = "done" =>
            trace = <<SM_ENTER, "write_ssh_config_file", "TransferAgent",
                      Raise("UnboundLocalError"), SM_EXIT>>

C10_Witness ==
    /\ config_file.mode = "OTHER"
    /\ pc = "done"
    /\ exc = "UnboundLocalError"
    /\ Has(SM_EXIT)
====
